---------------------------- MODULE Spec2Model ----------------------------
(***************************************************************************)
(* Model of the exploit-finder correlation pipeline:                       *)
(*   expliot_finder/main_executor.py          ExploitFinderExecutor        *)
(*   expliot_finder/scraper/executor.py       ExploitScrapperExecutor      *)
(*   expliot_finder/scraper/core/cve_scrapper.py   SuitableCVEFinder       *)
(*                                                                         *)
(* Strings are sequences of one-character strings, so that re.split, the   *)
(* digit test and the substring test are computed, not assumed.            *)
(*                                                                         *)
(* Three specifications share the module:                                  *)
(*   Spec     the pipeline: __call__ -> find_exploit -> run_web_scrappers  *)
(*   SpecTok  extracted_service_ver_in_nums on bounded version strings     *)
(*   SpecSel  scrape_cve_table_page on bounded pages and token lists       *)
(***************************************************************************)
EXTENDS Integers, Sequences, FiniteSets

VARIABLES
    pc,                \* position of ExploitFinderExecutor.__call__
    scan,              \* the scanner's result, as handed to find_exploit
    ports_services,    \* founded_vulnerabilities["ports_services"]
    index_,            \* enumerate() position of find_exploit's loop
    cve_urls,          \* find_exploit's local cve_urls (an Optional list)
    exploit_urls,      \* find_exploit's local exploit_urls (an Optional list)
    cveTask,           \* the task gather() runs for scrap_cve()
    expTask,           \* the task gather() runs for scrap_exploits()
    finished,          \* the branches of the running gather, in completion order
    log,               \* history: one entry per asyncio.run(run_web_scrappers())
    output_table,      \* rows added by create_output_tb
    shown,             \* show_final_output has printed the table
    tok,               \* SpecTok: one call of extracted_service_ver_in_nums
    sel                \* SpecSel: one call of scrape_cve_table_page

vars == <<pc, scan, ports_services, index_, cve_urls, exploit_urls, cveTask,
          expTask, finished, log, output_table, shown, tok, sel>>

pipeVars == <<pc, scan, ports_services, index_, cve_urls, exploit_urls,
              cveTask, expTask, finished, log, output_table, shown>>

(***************************************************************************)
(* Bounds of the model.                                                    *)
(***************************************************************************)
MaxServices == 2
MaxLen == 4
MaxRows == 2
MaxTokens == 2

(***************************************************************************)
(* Values.                                                                 *)
(***************************************************************************)
\* An Optional value: None, or the value wrapped.
NoneVal == <<>>
Some(v) == <<v>>

\* The literal "Unknown" of main_executor.py.
Unknown == <<"U", "n", "k", "n", "o", "w", "n">>

\* str.isdigit() on one character.
IsDigit(c) == c \in {"0", "1", "2", "3", "4", "5", "6", "7", "8", "9"}

\* Truth value of an Optional[list] / Optional[str] in an `if`: neither None
\* nor empty.
Truthy(x) == x # NoneVal /\ x[1] # <<>>

\* All sequences over S of length at most n.
SeqsUpTo(S, n) == UNION {[1..k -> S] : k \in 0..n}

\* `word in text` for str: literal substring ('' is in every string).
Contains(text, word) ==
    \E i \in 0..(Len(text) - Len(word)) : SubSeq(text, i + 1, i + Len(word)) = word

(***************************************************************************)
(* SuitableCVEFinder.extracted_service_ver_in_nums                         *)
(***************************************************************************)
\* The separators of the pattern "-|_".
IsSep(c) == c \in {"-", "_"}

RECURSIVE SplitFrom(_, _, _, _)
SplitFrom(s, i, cur, acc) ==
    IF i > Len(s) THEN Append(acc, cur)
    ELSE IF IsSep(s[i]) THEN SplitFrom(s, i + 1, <<>>, Append(acc, cur))
    ELSE SplitFrom(s, i + 1, Append(cur, s[i]), acc)

\* re.split("-|_", s): the segments between separators, empty ones included.
ReSplit(s) == SplitFrom(s, 1, <<>>, <<>>)

\* any(char.isdigit() for char in element)
HasDigit(element) == \E i \in 1..Len(element) : IsDigit(element[i])

\* list.remove(x): drops the first item equal to x.
ListRemove(l, x) ==
    LET k == CHOOSE i \in 1..Len(l) : l[i] = x /\ \A j \in 1..(i - 1) : l[j] # x
    IN  SubSeq(l, 1, k - 1) \o SubSeq(l, k + 1, Len(l))

\* One pass of `for element in parsed_service_ver:` with the list iterator at
\* position `it` (0-based): the body runs on the item at `it` of the list as it
\* is now, and the iterator moves on by one whatever the body removed.
TokBody(parsed, it) ==
    LET element == parsed[it + 1]
    IN  IF ~HasDigit(element) THEN ListRemove(parsed, element) ELSE parsed

RECURSIVE TokLoop(_, _)
TokLoop(parsed, it) ==
    IF it >= Len(parsed) THEN parsed
    ELSE TokLoop(TokBody(parsed, it), it + 1)

extracted_service_ver_in_nums(service_version) ==
    TokLoop(ReSplit(service_version), 0)

(***************************************************************************)
(* SuitableCVEFinder.scrape_cve_table_page                                 *)
(*                                                                         *)
(* A page is the sequence of its td.cvesummarylong cells in document       *)
(* order.  Each cell carries its text and what the traversal               *)
(* find_previous().find_previous().find_parent().find("td")                *)
(* .find_next("td").find("a") reaches from it: `reach` is the number of    *)
(* the six calls that return an element, `href` the anchor's href          *)
(* attribute (an Optional: NoneVal when the anchor has none).              *)
(***************************************************************************)
TraversalSteps == 6

CveDomain == <<"h", "t", "t", "p", "s", ":", "/", "/", "w", "w", "w", ".",
               "c", "v", "e", "d", "e", "t", "a", "i", "l", "s", ".", "c", "o", "m">>

\* Results of a call: a returned value or a raised exception.
Returned(v) == [kind |-> "return", value |-> v]
Raised(e) == [kind |-> "raise", error |-> e]

\* Lines 131-139: the traversal, then f"https://www.cvedetails.com{a['href']}".
\* A call on None raises AttributeError, None['href'] raises TypeError and a
\* missing href raises KeyError.
ResolveLink(cell) ==
    IF cell.reach < TraversalSteps - 1 THEN Raised("AttributeError")
    ELSE IF cell.reach < TraversalSteps THEN Raised("TypeError")
    ELSE IF cell.href = NoneVal THEN Raised("KeyError")
    ELSE Returned(Some(CveDomain \o cell.href[1]))

\* any(word in element.text for word in parsed_service_ver)
CellMatches(cell, parsed_service_ver) ==
    \E k \in 1..Len(parsed_service_ver) : Contains(cell.text, parsed_service_ver[k])

RECURSIVE ScrapeFrom(_, _, _)
ScrapeFrom(page, parsed_service_ver, it) ==
    IF it >= Len(page) THEN Returned(NoneVal)
    ELSE IF CellMatches(page[it + 1], parsed_service_ver)
         THEN ResolveLink(page[it + 1])
         ELSE ScrapeFrom(page, parsed_service_ver, it + 1)

scrape_cve_table_page(page_content, parsed_service_ver) ==
    ScrapeFrom(page_content, parsed_service_ver, 0)

(***************************************************************************)
(* SpecTok: extracted_service_ver_in_nums, one list-iterator step at a     *)
(* time, on every version string of at most MaxLen characters.             *)
(***************************************************************************)
TokAlphabet == {"a", "b", "7", "-", "_"}

TokVersions == SeqsUpTo(TokAlphabet, MaxLen) \cup {Unknown}

TokIdle == [pc |-> "idle", service_version |-> <<>>, parsed |-> <<>>, it |-> 0]

\* Line 80: parsed_service_ver = re.split("-|_", self.service_version)
TokSplit ==
    /\ tok.pc = "call"
    /\ tok' = [tok EXCEPT !.pc = "loop", !.parsed = ReSplit(tok.service_version),
                          !.it = 0]
    /\ UNCHANGED <<pipeVars, sel>>

\* Lines 81-83: one iteration of the for loop.
TokIter ==
    /\ tok.pc = "loop"
    /\ tok.it < Len(tok.parsed)
    /\ tok' = [tok EXCEPT !.parsed = TokBody(tok.parsed, tok.it), !.it = tok.it + 1]
    /\ UNCHANGED <<pipeVars, sel>>

\* Line 84: the iterator is exhausted; return parsed_service_ver.
TokReturn ==
    /\ tok.pc = "loop"
    /\ tok.it >= Len(tok.parsed)
    /\ tok' = [tok EXCEPT !.pc = "returned"]
    /\ UNCHANGED <<pipeVars, sel>>

(***************************************************************************)
(* SpecSel: scrape_cve_table_page, one summary cell at a time, on every    *)
(* page of at most MaxRows cells and every list of at most MaxTokens       *)
(* tokens.                                                                 *)
(***************************************************************************)
SelTexts == {<<"x">>, <<"a", "7">>, <<"9">>}

SelTokens == {<<"7">>, <<"9">>}

Href1 == <<"/", "1">>
Href2 == <<"/", "2">>

\* What the traversal finds from a cell: a link, an anchor without href,
\* no anchor in the link cell, no element early in the traversal.
SelAnchors ==
    {[reach |-> TraversalSteps, href |-> Some(Href1)],
     [reach |-> TraversalSteps, href |-> Some(Href2)],
     [reach |-> TraversalSteps, href |-> NoneVal],
     [reach |-> TraversalSteps - 1, href |-> NoneVal],
     [reach |-> 0, href |-> NoneVal]}

SelCells ==
    {[text |-> t, reach |-> a.reach, href |-> a.href] : t \in SelTexts, a \in SelAnchors}

SelPages == SeqsUpTo(SelCells, MaxRows)

SelTokenLists == SeqsUpTo(SelTokens, MaxTokens)

NoResult == [kind |-> "none"]

SelIdle == [pc |-> "idle", page |-> <<>>, tokens |-> <<>>, it |-> 0, result |-> NoResult]

\* Lines 129-130, condition false: go on to the next cell.
SelSkip ==
    /\ sel.pc = "loop"
    /\ sel.it < Len(sel.page)
    /\ ~CellMatches(sel.page[sel.it + 1], sel.tokens)
    /\ sel' = [sel EXCEPT !.it = sel.it + 1]
    /\ UNCHANGED <<pipeVars, tok>>

\* A variant without the early return: a later matching cell wins.
SelMatchLast ==
    /\ sel.pc = "loop"
    /\ sel.it < Len(sel.page)
    /\ CellMatches(sel.page[sel.it + 1], sel.tokens)
    /\ IF \E j \in (sel.it + 2)..Len(sel.page) : CellMatches(sel.page[j], sel.tokens)
       THEN sel' = [sel EXCEPT !.it = sel.it + 1]
       ELSE sel' = [sel EXCEPT !.pc = "done",
                               !.result = ResolveLink(sel.page[sel.it + 1])]
    /\ UNCHANGED <<pipeVars, tok>>

\* Lines 130-139, condition true: the traversal, then return (or raise).
SelMatch ==
    /\ sel.pc = "loop"
    /\ sel.it < Len(sel.page)
    /\ CellMatches(sel.page[sel.it + 1], sel.tokens)
    /\ sel' = [sel EXCEPT !.pc = "done",
                          !.result = ResolveLink(sel.page[sel.it + 1])]
    /\ UNCHANGED <<pipeVars, tok>>

\* Line 140: no cell matched; return None.
SelExhausted ==
    /\ sel.pc = "loop"
    /\ sel.it >= Len(sel.page)
    /\ sel' = [sel EXCEPT !.pc = "done",
                          !.result = Returned(NoneVal)]
    /\ UNCHANGED <<pipeVars, tok>>

(***************************************************************************)
(* The pipeline's inputs and its environment.                              *)
(***************************************************************************)
\* Detected services: the port and the service name the scanner reports.
Endpoints == {[port_number |-> 22, service_name |-> <<"s", "s", "h">>],
              [port_number |-> 80, service_name |-> <<"h", "t", "t", "p">>]}

ScanVersions == {Unknown, <<"7", ".", "2">>, <<"a", "_", "9">>}

\* The namedtuples the scanner puts in founded_vulnerabilities["ports_services"].
ServiceRecords ==
    {[port_number |-> e.port_number, service_name |-> e.service_name,
      service_version |-> v] : e \in Endpoints, v \in ScanVersions}

ScanResults == SeqsUpTo(ServiceRecords, MaxServices)

\* What GoogleSitesFinder.search_for_pages may return for each domain.
TableUrl == <<"t">>
Exploit1 == <<"e", "1">>
Exploit2 == <<"e", "2">>
CveSearchResults == {<<>>, <<TableUrl>>}
ExploitSearchResults == {<<>>, <<Exploit1>>, <<Exploit1, Exploit2>>}
\* (lists of URLs; a task wraps the list it returns with Some)

\* What the GET of the table page may return: no summary cell, a cell about
\* 7.2 with its link, the same cell in a layout where the traversal finds no
\* element, and the same cell with an anchor that has no href.
PageBodies ==
    {<<>>,
     <<[text |-> <<"x">>, reach |-> TraversalSteps, href |-> Some(Href2)],
       [text |-> <<"i", "n", " ", "7", ".", "2">>, reach |-> TraversalSteps,
        href |-> Some(Href1)]>>,
     <<[text |-> <<"i", "n", " ", "7", ".", "2">>, reach |-> 2, href |-> NoneVal]>>,
     <<[text |-> <<"i", "n", " ", "7", ".", "2">>, reach |-> TraversalSteps,
        href |-> NoneVal]>>}

(***************************************************************************)
(* Python list operations used by find_exploit.                            *)
(***************************************************************************)
Min(a, b) == IF a < b THEN a ELSE b

\* list.insert(i, x) for i >= 0: x goes before the item at i, or at the end.
ListInsert(l, i, x) ==
    LET k == Min(i, Len(l))
    IN  SubSeq(l, 1, k) \o <<x>> \o SubSeq(l, k + 1, Len(l))

\* del l[i] for 0 <= i < len(l).
ListDel(l, i) == SubSeq(l, 1, i) \o SubSeq(l, i + 2, Len(l))

(***************************************************************************)
(* Tasks of asyncio.gather.                                                *)
(***************************************************************************)
NoTask == [state |-> "none", result |-> NoneVal, error |-> "", url |-> <<>>,
           page |-> <<>>]

Created == [NoTask EXCEPT !.state = "created"]

TaskDone(t, r) == [t EXCEPT !.state = "done", !.result = r]

TaskFailed(t, e) == [t EXCEPT !.state = "failed", !.error = e]

Pending(t) == t.state \in {"created", "searching", "fetching"}

(***************************************************************************)
(* ExploitFinderExecutor.__call__ and find_exploit                         *)
(***************************************************************************)
\* The item the list iterator hands to the loop body at position index_.
collected_info == ports_services[index_ + 1]

\* Line 29 / 63-64: the scanner fills founded_vulnerabilities; line 68 then
\* starts find_exploit with two empty lists.
ScanSelectedDevice ==
    /\ pc = "scan_selected_device"
    /\ \E result \in ScanResults :
          /\ scan' = result
          /\ ports_services' = result
    /\ index_' = 0
    /\ cve_urls' = Some(<<>>)
    /\ exploit_urls' = Some(<<>>)
    /\ pc' = "find_exploit"
    /\ UNCHANGED <<cveTask, expTask, finished, log, output_table, shown, tok, sel>>

\* A variant of the test of line 71 that searches for every record.
NeedsSearchAlways(info) == TRUE

\* Line 71: collected_info.service_version != "Unknown"
NeedsSearch(info) == info.service_version # Unknown

\* Lines 69-71, test false: the body goes straight to building the record.
IterSkip ==
    /\ pc = "find_exploit"
    /\ index_ < Len(ports_services)
    /\ ~NeedsSearch(collected_info)
    /\ pc' = "emit"
    /\ UNCHANGED <<scan, ports_services, index_, cve_urls, exploit_urls, cveTask,
                   expTask, finished, log, output_table, shown, tok, sel>>

\* Lines 69-73, test true: asyncio.run(...run_web_scrappers()) starts; line 90
\* of executor.py hands both coroutines to gather, which makes a task of each.
IterCorrelate ==
    /\ pc = "find_exploit"
    /\ index_ < Len(ports_services)
    /\ NeedsSearch(collected_info)
    /\ cveTask' = Created
    /\ expTask' = Created
    /\ finished' = <<>>
    /\ log' = Append(log, [index |-> index_, outcome |-> "running",
                           service_version |-> collected_info.service_version,
                           searches |-> {}, pair |-> <<>>, error |-> ""])
    /\ pc' = "correlate"
    /\ UNCHANGED <<scan, ports_services, index_, cve_urls, exploit_urls,
                   output_table, shown, tok, sel>>

\* The log entry of the running asyncio.run notes a call of search_for_pages.
NoteSearch(branch) ==
    [log EXCEPT ![Len(log)].searches = log[Len(log)].searches \cup {branch}]

(***************************************************************************)
(* ExploitScrapperExecutor.scrap_cve / scrap_exploits, as tasks            *)
(***************************************************************************)
\* executor.py 118-120: scrap_cve awaits search_for_pages(cvedetails).  The
\* event loop runs the first step of the first task before that of the second.
CveStart ==
    /\ pc = "correlate"
    /\ cveTask.state = "created"
    /\ cveTask' = [cveTask EXCEPT !.state = "searching"]
    /\ log' = NoteSearch("cve")
    /\ UNCHANGED <<pc, scan, ports_services, index_, cve_urls, exploit_urls,
                   expTask, finished, output_table, shown, tok, sel>>

\* executor.py 104: scrap_exploits awaits search_for_pages(exploit-db).
ExpStart ==
    /\ pc = "correlate"
    /\ expTask.state = "created"
    /\ cveTask.state # "created"
    /\ expTask' = [expTask EXCEPT !.state = "searching"]
    /\ log' = NoteSearch("exp")
    /\ UNCHANGED <<pc, scan, ports_services, index_, cve_urls, exploit_urls,
                   cveTask, finished, output_table, shown, tok, sel>>

\* executor.py 118-125: the search returns; an empty result is returned as it
\* is, otherwise SuitableCVEFinder(cve_table_url[0], ...) fetches the page.
CveSearchReturns ==
    /\ pc = "correlate"
    /\ cveTask.state = "searching"
    /\ \E cve_table_url \in CveSearchResults :
          IF cve_table_url = <<>>
          THEN /\ cveTask' = TaskDone(cveTask, Some(cve_table_url))
               /\ finished' = Append(finished, "cve")
          ELSE /\ cveTask' = [cveTask EXCEPT !.state = "fetching",
                                             !.url = cve_table_url[1]]
               /\ finished' = finished
    /\ UNCHANGED <<pc, scan, ports_services, index_, cve_urls, exploit_urls,
                   expTask, log, output_table, shown, tok, sel>>

\* The site finder's search raises a network failure in scrap_cve.
CveSearchFails ==
    /\ pc = "correlate"
    /\ cveTask.state = "searching"
    /\ cveTask' = TaskFailed(cveTask, "NetworkFailure")
    /\ finished' = Append(finished, "cve")
    /\ UNCHANGED <<pc, scan, ports_services, index_, cve_urls, exploit_urls,
                   expTask, log, output_table, shown, tok, sel>>

\* cve_scrapper.py 157-162: find_suitable_cve with the page body fetched.
find_suitable_cve(service_version, page_content) ==
    LET parsed_service_ver == extracted_service_ver_in_nums(service_version)
        suitable_cve == scrape_cve_table_page(page_content, parsed_service_ver)
    IN  IF suitable_cve.kind = "raise" THEN suitable_cve
        ELSE IF Truthy(suitable_cve.value) THEN Returned(Some(<<suitable_cve.value[1]>>))
        ELSE Returned(NoneVal)

\* cve_scrapper.py 158-162: get_page_content returns a body; the table is
\* scraped and the task ends with the result, or with what the scraping raised.
CveFetchReturns ==
    /\ pc = "correlate"
    /\ cveTask.state = "fetching"
    /\ \E page_content \in PageBodies :
          LET r == find_suitable_cve(log[Len(log)].service_version, page_content)
              t == [cveTask EXCEPT !.page = page_content]
          IN  cveTask' = IF r.kind = "raise" THEN TaskFailed(t, r.error)
                         ELSE TaskDone(t, r.value)
    /\ finished' = Append(finished, "cve")
    /\ UNCHANGED <<pc, scan, ports_services, index_, cve_urls, exploit_urls,
                   expTask, log, output_table, shown, tok, sel>>

\* cve_scrapper.py 94-96: the GET raises a network failure.
CveFetchFails ==
    /\ pc = "correlate"
    /\ cveTask.state = "fetching"
    /\ cveTask' = TaskFailed(cveTask, "NetworkFailure")
    /\ finished' = Append(finished, "cve")
    /\ UNCHANGED <<pc, scan, ports_services, index_, cve_urls, exploit_urls,
                   expTask, log, output_table, shown, tok, sel>>

\* executor.py 104: the exploit search returns its list of URLs.
ExpSearchReturns ==
    /\ pc = "correlate"
    /\ expTask.state = "searching"
    /\ \E urls \in ExploitSearchResults : expTask' = TaskDone(expTask, Some(urls))
    /\ finished' = Append(finished, "exp")
    /\ UNCHANGED <<pc, scan, ports_services, index_, cve_urls, exploit_urls,
                   cveTask, log, output_table, shown, tok, sel>>

\* The site finder's search raises a network failure in scrap_exploits.
ExpSearchFails ==
    /\ pc = "correlate"
    /\ expTask.state = "searching"
    /\ expTask' = TaskFailed(expTask, "NetworkFailure")
    /\ finished' = Append(finished, "exp")
    /\ UNCHANGED <<pc, scan, ports_services, index_, cve_urls, exploit_urls,
                   cveTask, log, output_table, shown, tok, sel>>

(***************************************************************************)
(* ExploitScrapperExecutor.run_web_scrappers: the gather and its outcome   *)
(***************************************************************************)
\* A variant that resumes as soon as one branch is done (first-completed).
JoinReadyFirstCompleted == cveTask.state = "done" \/ expTask.state = "done"

\* executor.py 90: `await asyncio.gather(a, b)` resumes with the results once
\* every awaitable has finished.
JoinReady == cveTask.state = "done" /\ expTask.state = "done"

\* A variant that lists the results in the order the branches completed.
GatherResultsByCompletion(cveT, expT, order) ==
    IF order # <<>> /\ order[1] = "exp" THEN <<expT.result, cveT.result>>
    ELSE <<cveT.result, expT.result>>

\* executor.py 90-91: gather's result list follows the order of its
\* arguments, (scrap_cve(), scrap_exploits()), and is returned as a pair.
GatherResults(cveT, expT, order) == <<cveT.result, expT.result>>

\* executor.py 90-91 and main_executor.py 72-73: both branches are done,
\* run_web_scrappers returns the pair, asyncio.run returns it and find_exploit
\* unpacks it into cve_urls, exploit_urls.
GatherJoin ==
    /\ pc = "correlate"
    /\ JoinReady
    /\ LET pair == GatherResults(cveTask, expTask, finished)
       IN  /\ cve_urls' = pair[1]
           /\ exploit_urls' = pair[2]
           /\ log' = [log EXCEPT ![Len(log)].outcome = "returned",
                                 ![Len(log)].pair = pair]
    /\ pc' = "emit"
    /\ UNCHANGED <<scan, ports_services, index_, cveTask, expTask, finished,
                   output_table, shown, tok, sel>>

\* asyncio.run's teardown cancels every task that is still pending.
CancelIfPending(t) == IF Pending(t) THEN [t EXCEPT !.state = "cancelled"] ELSE t

\* The error gather propagates: that of the branch that failed first.
FirstError ==
    LET k == CHOOSE i \in 1..Len(finished) :
                 /\ (IF finished[i] = "cve" THEN cveTask ELSE expTask).state = "failed"
                 /\ \A j \in 1..(i - 1) :
                        (IF finished[j] = "cve" THEN cveTask ELSE expTask).state # "failed"
    IN  (IF finished[k] = "cve" THEN cveTask ELSE expTask).error

\* A variant in which find_exploit wraps the call in try/except and goes on
\* with no links for the service.
GatherRaiseCaught ==
    /\ pc = "correlate"
    /\ cveTask.state = "failed" \/ expTask.state = "failed"
    /\ expTask.state # "created"
    /\ cveTask' = CancelIfPending(cveTask)
    /\ expTask' = CancelIfPending(expTask)
    /\ log' = [log EXCEPT ![Len(log)].outcome = "raised",
                          ![Len(log)].error = FirstError]
    /\ cve_urls' = Some(<<>>)
    /\ exploit_urls' = Some(<<>>)
    /\ pc' = "emit"
    /\ UNCHANGED <<scan, ports_services, index_, finished, output_table, shown,
                   tok, sel>>

\* executor.py 90: a branch has raised; gather (return_exceptions left False)
\* hands the first exception to run_web_scrappers at once, without waiting for
\* the other branch.  Nothing catches it in run_web_scrappers, in find_exploit
\* (main_executor.py 72-73) or in __call__ (27-32): asyncio.run cancels what is
\* still pending and the exception leaves __call__.  The second task's first
\* step is queued before the first task's completion callback, so both
\* branches have started by then.
GatherRaise ==
    /\ pc = "correlate"
    /\ cveTask.state = "failed" \/ expTask.state = "failed"
    /\ expTask.state # "created"
    /\ cveTask' = CancelIfPending(cveTask)
    /\ expTask' = CancelIfPending(expTask)
    /\ log' = [log EXCEPT ![Len(log)].outcome = "raised",
                          ![Len(log)].error = FirstError]
    /\ pc' = "aborted"
    /\ UNCHANGED <<scan, ports_services, index_, cve_urls, exploit_urls, finished,
                   output_table, shown, tok, sel>>

(***************************************************************************)
(* find_exploit, lines 75-95: the record and the in-place replacement      *)
(***************************************************************************)
\* A variant that takes the last URL of the list.
LastOrUnknown(urls) == IF Truthy(urls) THEN urls[1][Len(urls[1])] ELSE Unknown

\* Lines 85-87: urls[0] if urls else "Unknown"
FirstOrUnknown(urls) == IF Truthy(urls) THEN urls[1][1] ELSE Unknown

\* Lines 92-95: if urls: del urls[0]
DelHead(urls) == IF Truthy(urls) THEN Some(Tail(urls[1])) ELSE urls

\* A variant that deletes the head of the list instead of the old record.
ReplaceRecordDelHead(l, i, rec) == ListDel(ListInsert(l, i + 1, rec), 0)

\* Lines 79-90: insert(index_ + 1, record), then del [index_].
ReplaceRecord(l, i, rec) == ListDel(ListInsert(l, i + 1, rec), i)

\* Lines 75-88: the Vulnerability namedtuple.
Vulnerability(info, cves, exploits) ==
    [port_number |-> info.port_number,
     service_name |-> info.service_name,
     service_version |-> info.service_version,
     cve_link |-> FirstOrUnknown(cves),
     exploit_link |-> FirstOrUnknown(exploits)]

\* Lines 75-95: the rest of the loop body, after which the iterator moves on.
\* The tasks of the finished asyncio.run are gone with its event loop.
Emit ==
    /\ pc = "emit"
    /\ ports_services' = ReplaceRecord(ports_services, index_,
                             Vulnerability(collected_info, cve_urls, exploit_urls))
    /\ cve_urls' = DelHead(cve_urls)
    /\ exploit_urls' = DelHead(exploit_urls)
    /\ index_' = index_ + 1
    /\ cveTask' = NoTask
    /\ expTask' = NoTask
    /\ finished' = <<>>
    /\ pc' = "find_exploit"
    /\ UNCHANGED <<scan, log, output_table, shown, tok, sel>>

\* Lines 69-70: the list iterator is exhausted; find_exploit returns.
LoopEnd ==
    /\ pc = "find_exploit"
    /\ index_ >= Len(ports_services)
    /\ pc' = "create_output_tb"
    /\ UNCHANGED <<scan, ports_services, index_, cve_urls, exploit_urls, cveTask,
                   expTask, finished, log, output_table, shown, tok, sel>>

\* Lines 109-116: one row per record; a record without the link attributes
\* raises AttributeError, which leaves __call__.
CreateOutputTb ==
    /\ pc = "create_output_tb"
    /\ IF \A i \in 1..Len(ports_services) :
              {"cve_link", "exploit_link"} \subseteq DOMAIN ports_services[i]
       THEN /\ output_table' =
                  [i \in 1..Len(ports_services) |->
                      <<ports_services[i].port_number,
                        ports_services[i].service_name,
                        ports_services[i].service_version,
                        ports_services[i].cve_link,
                        ports_services[i].exploit_link>>]
            /\ pc' = "show_final_output"
       ELSE /\ output_table' = output_table
            /\ pc' = "aborted"
    /\ UNCHANGED <<scan, ports_services, index_, cve_urls, exploit_urls, cveTask,
                   expTask, finished, log, shown, tok, sel>>

\* Lines 118-121: print the table.
ShowFinalOutput ==
    /\ pc = "show_final_output"
    /\ shown' = TRUE
    /\ pc' = "done"
    /\ UNCHANGED <<scan, ports_services, index_, cve_urls, exploit_urls, cveTask,
                   expTask, finished, log, output_table, tok, sel>>

(***************************************************************************)
(* Specifications                                                          *)
(***************************************************************************)
\* main_executor.py 21-25: the executor as constructed.
PipeInit ==
    /\ pc = "scan_selected_device"
    /\ scan = <<>>
    /\ ports_services = <<>>
    /\ index_ = 0
    /\ cve_urls = Some(<<>>)
    /\ exploit_urls = Some(<<>>)
    /\ cveTask = NoTask
    /\ expTask = NoTask
    /\ finished = <<>>
    /\ log = <<>>
    /\ output_table = <<>>
    /\ shown = FALSE

Init == PipeInit /\ tok = TokIdle /\ sel = SelIdle

Next ==
    \/ ScanSelectedDevice
    \/ IterSkip
    \/ IterCorrelate
    \/ CveStart
    \/ ExpStart
    \/ CveSearchReturns
    \/ CveSearchFails
    \/ CveFetchReturns
    \/ CveFetchFails
    \/ ExpSearchReturns
    \/ ExpSearchFails
    \/ GatherJoin
    \/ GatherRaise
    \/ Emit
    \/ LoopEnd
    \/ CreateOutputTb
    \/ ShowFinalOutput

Spec == Init /\ [][Next]_vars

TokInit ==
    /\ PipeInit
    /\ sel = SelIdle
    /\ tok \in {[pc |-> "call", service_version |-> v, parsed |-> <<>>, it |-> 0] :
                   v \in TokVersions}

TokNext == TokSplit \/ TokIter \/ TokReturn

SpecTok == TokInit /\ [][TokNext]_vars

SelInit ==
    /\ PipeInit
    /\ tok = TokIdle
    /\ sel \in {[pc |-> "loop", page |-> p, tokens |-> t, it |-> 0,
                 result |-> NoResult] : p \in SelPages, t \in SelTokenLists}

SelNext == SelSkip \/ SelMatch \/ SelExhausted

SpecSel == SelInit /\ [][SelNext]_vars

(***************************************************************************)
(* Properties                                                              *)
(***************************************************************************)
\* find_exploit has returned to __call__.
FindExploitCompleted == pc \in {"create_output_tb", "show_final_output", "done"}

\* The entry of the latest asyncio.run(run_web_scrappers()).
LastCall == log[Len(log)]

\* The latest run_web_scrappers call has ended and its tasks are still there.
CorrelateEnded ==
    /\ Len(log) > 0
    /\ LastCall.outcome # "running"
    /\ cveTask.state # "none"

\* C1: when find_exploit completes, ports_services has the length of the
\* input and the record at every index carries the port_number, service_name
\* and service_version of the input record at that index.
C1_RecordsKeepTheirPlace ==
    FindExploitCompleted =>
        /\ Len(ports_services) = Len(scan)
        /\ \A i \in 1..Len(scan) :
              /\ ports_services[i].port_number = scan[i].port_number
              /\ ports_services[i].service_name = scan[i].service_name
              /\ ports_services[i].service_version = scan[i].service_version

\* C1 witness: a completed merge of two different services, one with a link
\* found and one with none.
C1_Witness ==
    /\ pc = "create_output_tb"
    /\ Len(scan) = 2
    /\ scan[1].port_number # scan[2].port_number
    /\ ports_services[1].cve_link # Unknown
    /\ ports_services[2].cve_link = Unknown
    /\ ports_services[2].exploit_link = Unknown

\* C2: every emitted record whose service_version is "Unknown" has cve_link
\* "Unknown" and exploit_link "Unknown", and no run_web_scrappers call was
\* made for it, whatever precedes it.
C2_UnknownVersionUnknownLinks ==
    \A i \in 1..index_ :
        scan[i].service_version = Unknown =>
            /\ ports_services[i].cve_link = Unknown
            /\ ports_services[i].exploit_link = Unknown
            /\ \A k \in 1..Len(log) : log[k].index # i - 1

\* C3 as claimed: run_web_scrappers ends only once both branches have
\* finished, and neither branch is cancelled, also when a branch fails.
C3_AlwaysJoinsNeverCancels ==
    CorrelateEnded =>
        /\ LastCall.searches = {"cve", "exp"}
        /\ cveTask.state \in {"done", "failed"}
        /\ expTask.state \in {"done", "failed"}

\* C3 amended: run_web_scrappers starts both searches; it returns only once
\* both branches are done, none cancelled; it raises only when a branch has
\* failed, and only then is a branch that is still pending cancelled.
C3_JoinsUnlessABranchFails ==
    /\ CorrelateEnded => LastCall.searches = {"cve", "exp"}
    /\ (CorrelateEnded /\ LastCall.outcome = "returned") =>
          cveTask.state = "done" /\ expTask.state = "done"
    /\ (CorrelateEnded /\ LastCall.outcome = "raised") =>
          /\ cveTask.state = "failed" \/ expTask.state = "failed"
          /\ ~Pending(cveTask) /\ ~Pending(expTask)
    /\ cveTask.state = "cancelled" =>
          expTask.state = "failed" /\ LastCall.outcome = "raised"
    /\ expTask.state = "cancelled" =>
          cveTask.state = "failed" /\ LastCall.outcome = "raised"

\* C3 witness: the call has returned after the exploit branch finished first
\* and the advisory branch, which had to fetch a page, second.
C3_Witness ==
    /\ CorrelateEnded
    /\ LastCall.outcome = "returned"
    /\ finished = <<"exp", "cve">>
    /\ cveTask.url # <<>>

\* C4: the tokens returned are exactly the segments of the split on '-' and
\* '_' that contain a digit, in their order; so every token has a digit.
C4_OnlyDigitTokens ==
    tok.pc = "returned" =>
        /\ tok.parsed = SelectSeq(ReSplit(tok.service_version), HasDigit)
        /\ \A i \in 1..Len(tok.parsed) : HasDigit(tok.parsed[i])

\* The first summary cell that contains a token, 0 when there is none.
FirstMatching(page, tokens) ==
    IF \E i \in 1..Len(page) : CellMatches(page[i], tokens)
    THEN CHOOSE i \in 1..Len(page) :
             /\ CellMatches(page[i], tokens)
             /\ \A j \in 1..(i - 1) : ~CellMatches(page[j], tokens)
    ELSE 0

\* The traversal from the cell reaches an anchor with an href.
LinkReachable(cell) == cell.reach = TraversalSteps /\ cell.href # NoneVal

\* The page does not have the assumed layout where it matters: the traversal
\* from the first matching cell does not reach a link.
Malformed(page, tokens) ==
    /\ FirstMatching(page, tokens) # 0
    /\ ~LinkReachable(page[FirstMatching(page, tokens)])

\* C5: on a page whose layout breaks the traversal, the advisory search does
\* not raise: it ends with no match (None) and the run is not aborted.
C5_MalformedPageIsNoMatch ==
    (/\ cveTask.state \in {"done", "failed"}
     /\ Malformed(cveTask.page, extracted_service_ver_in_nums(LastCall.service_version)))
        => /\ cveTask.state = "done"
           /\ cveTask.result = NoneVal
           /\ pc # "aborted"

\* C6: every record emitted for a version other than "Unknown" has its own
\* run_web_scrappers call, and its links are the first elements of the two
\* results of that call, or "Unknown" where the result is None or empty.
C6_LinksAreFirstOfOwnResults ==
    /\ \A i \in 1..index_ :
          scan[i].service_version # Unknown =>
              \E k \in 1..Len(log) : log[k].index = i - 1 /\ log[k].outcome = "returned"
    /\ \A k \in 1..Len(log) :
          (log[k].outcome = "returned" /\ log[k].index < index_) =>
              LET rec == ports_services[log[k].index + 1]
                  adv == log[k].pair[1]
                  exp == log[k].pair[2]
              IN  /\ rec.cve_link =
                        (IF adv = NoneVal \/ adv[1] = <<>> THEN Unknown ELSE adv[1][1])
                  /\ rec.exploit_link =
                        (IF exp = NoneVal \/ exp[1] = <<>> THEN Unknown ELSE exp[1][1])

\* C6 witness: a record emitted from a call that returned one advisory link
\* and two exploit links.
C6_Witness ==
    \E k \in 1..Len(log) :
        /\ log[k].outcome = "returned"
        /\ log[k].index < index_
        /\ log[k].pair[1] # NoneVal
        /\ Len(log[k].pair[1][1]) = 1
        /\ Len(log[k].pair[2][1]) = 2
        /\ ports_services[log[k].index + 1].exploit_link = Exploit1

\* C7: the result is decided by the first summary cell, in document order,
\* that contains a token: None when there is no such cell (no cell at all, no
\* token, no cell with a token), the link of that cell's row when the
\* traversal reaches it, and never the link of a later matching row.
C7_FirstMatchWins ==
    sel.pc = "done" =>
        LET f == FirstMatching(sel.page, sel.tokens)
        IN  /\ f = 0 => sel.result = Returned(NoneVal)
            /\ (f # 0 /\ LinkReachable(sel.page[f])) =>
                  sel.result = Returned(Some(CveDomain \o sel.page[f].href[1]))
            /\ (sel.result.kind = "return" /\ sel.result.value # NoneVal) =>
                  /\ f # 0
                  /\ LinkReachable(sel.page[f])
                  /\ sel.result.value = Some(CveDomain \o sel.page[f].href[1])

\* C7 witness: two matching rows with different links; the first row's link
\* has been returned.
C7_Witness ==
    /\ sel.pc = "done"
    /\ Len(sel.page) = 2
    /\ CellMatches(sel.page[1], sel.tokens)
    /\ CellMatches(sel.page[2], sel.tokens)
    /\ LinkReachable(sel.page[1])
    /\ LinkReachable(sel.page[2])
    /\ sel.page[1].href # sel.page[2].href
    /\ sel.result = Returned(Some(CveDomain \o sel.page[1].href[1]))

\* A branch of the latest call ended with a network failure.
NetworkFailed ==
    \/ cveTask.state = "failed" /\ cveTask.error = "NetworkFailure"
    \/ expTask.state = "failed" /\ expTask.error = "NetworkFailure"

\* C8: once a network failure of service k has left run_web_scrappers, the
\* run is aborted at k: the call is recorded as raised, it is the last call
\* ever made, the loop stands at k, and no table is built or shown.
C8_NetworkFailureAbortsRun ==
    (NetworkFailed /\ pc # "correlate") =>
        /\ pc = "aborted"
        /\ LastCall.outcome = "raised"
        /\ LastCall.index = index_
        /\ \A k \in 1..Len(log) : log[k].index <= index_
        /\ output_table = <<>>
        /\ ~shown

\* C8 witness: the page fetch of the first service failed, the run is
\* aborted, and a later service with a known version was never searched.
C8_Witness ==
    /\ pc = "aborted"
    /\ cveTask.state = "failed"
    /\ cveTask.error = "NetworkFailure"
    /\ cveTask.url # <<>>
    /\ index_ = 0
    /\ Len(scan) = 2
    /\ scan[2].service_version # Unknown
    /\ Len(log) = 1

\* The number of records whose test of line 71 has been made.
Visited == IF pc \in {"correlate", "emit", "aborted"} THEN index_ + 1 ELSE index_

\* The record at 0-based index i of the input has a known version.
KnownVersion(i) == scan[i + 1].service_version # Unknown

\* C9: the calls made so far are, in input order, exactly one for each
\* visited record with a version other than "Unknown"; a call is made only
\* after the one before it has returned with both searches done; and the
\* loop ends after exactly len(input) iterations, the list as long as it was.
C9_OneCallPerKnownVersionInOrder ==
    /\ [k \in 1..Len(log) |-> log[k].index]
          = SelectSeq([i \in 1..Visited |-> i - 1], KnownVersion)
    /\ \A k \in 1..(Len(log) - 1) :
          log[k].outcome = "returned" /\ log[k].searches = {"cve", "exp"}
    /\ (Pending(cveTask) \/ Pending(expTask)) =>
          pc = "correlate" /\ LastCall.outcome = "running"
    /\ index_ <= Len(scan)
    /\ FindExploitCompleted =>
          index_ = Len(scan) /\ Len(ports_services) = Len(scan)

\* C9 witness: find_exploit has completed after two calls, one per service.
C9_Witness ==
    /\ FindExploitCompleted
    /\ Len(scan) = 2
    /\ Len(log) = 2
    /\ log[1].index = 0
    /\ log[2].index = 1

=============================================================================
